---- MODULE Spec2Model ----
(***************************************************************************)
(* A model of the eagle API server (src/api/main.go): the three HTTP      *)
(* handlers getRandomSentence, checkAnswer and reportSentence over the     *)
(* two MySQL tables sentences and answer_histories.                        *)
(*                                                                         *)
(* Every request is served on its own goroutine and every SQL statement   *)
(* is its own (auto-commit) transaction.  getRandomSentence and            *)
(* reportSentence issue one statement each, so each is one step.           *)
(* checkAnswer issues two statements (the lookup SELECT, then the INSERT)  *)
(* with only local computation between them, so it is two steps:           *)
(* CheckAnswerLookup and CheckAnswerInsert; the locals of a call that is   *)
(* between its two statements are held in the bag inflight.                *)
(*                                                                         *)
(* Text is modelled as a sequence of one-character strings, so that        *)
(* strings.ToLower and strings.TrimSpace are computed character by         *)
(* character.  A DATETIME is modelled as a number of seconds.              *)
(***************************************************************************)
EXTENDS Bags, FiniteSets, Integers, Sequences, TLC

VARIABLES
    sentences,          \* table sentences, a sequence ordered by id
    answer_histories,   \* table answer_histories, a sequence ordered by id
    inflight,           \* bag of checkAnswer calls between SELECT and INSERT
    resp                \* the response the latest step wrote, if it wrote one

vars == <<sentences, answer_histories, inflight, resp>>

----------------------------------------------------------------------------
(* Bounds of the model *)

\* at most this many answer_histories rows (inserted plus about to be inserted)
MaxRows == 3

\* longest text drawn for the exhaustive answer-comparison specification
MaxLen == 3

\* longest history the practice of one client starts from
MaxHistory == 3

----------------------------------------------------------------------------
(* Program constants *)

StatusOK == 200
StatusNoContent == 204
StatusBadRequest == 400
StatusNotFound == 404
StatusMethodNotAllowed == 405
StatusInternalServerError == 500

\* HAVING correct_count - incorrect_count < 2
MasteryThreshold == 2

Methods == {"GET", "POST", "OPTIONS"}

----------------------------------------------------------------------------
(* Text *)

UpperCase ==
    <<"A","B","C","D","E","F","G","H","I","J","K","L","M",
      "N","O","P","Q","R","S","T","U","V","W","X","Y","Z">>

LowerCase ==
    <<"a","b","c","d","e","f","g","h","i","j","k","l","m",
      "n","o","p","q","r","s","t","u","v","w","x","y","z">>

\* the lower-case letter of each upper-case letter
LowerOf ==
    [c \in {UpperCase[i] : i \in 1..26} |->
        LowerCase[CHOOSE i \in 1..26 : UpperCase[i] = c]]

\* unicode.ToLower on one character
ToLowerRune(c) == IF c \in DOMAIN LowerOf THEN LowerOf[c] ELSE c

\* strings.ToLower
ToLower(s) ==
    IF Len(s) = 0 THEN <<>> ELSE [i \in 1..Len(s) |-> ToLowerRune(s[i])]

\* unicode.IsSpace, on the characters the model writes
IsSpace(c) == c \in {" ", "\t", "\n", "\r", "\f"}

\* the index of the first character of s that is not a space, Len(s) + 1
\* when there is none
TrimStart(s) ==
    CHOOSE i \in 1..(Len(s) + 1) :
        /\ \A j \in 1..(i - 1) : IsSpace(s[j])
        /\ i <= Len(s) => ~IsSpace(s[i])

\* the index of the last character of s that is not a space, 0 when there
\* is none
TrimStop(s) ==
    CHOOSE i \in 0..Len(s) :
        /\ \A j \in (i + 1)..Len(s) : IsSpace(s[j])
        /\ i >= 1 => ~IsSpace(s[i])

\* strings.TrimSpace: the slice from the first to the last non-space character
TrimSpace(s) == SubSeq(s, TrimStart(s), TrimStop(s))

\* a comparison that trims but keeps the case
IsCorrect_CaseSensitive(userAnswer, correctAnswer) ==
    TrimSpace(userAnswer) = TrimSpace(correctAnswer)

\* isCorrect := TrimSpace(ToLower(UserAnswer)) == TrimSpace(ToLower(correctAnswer))
\* (each ToLower is computed once, then trimmed)
IsCorrect(userAnswer, correctAnswer) ==
    \E lowerAnswer \in {ToLower(userAnswer)} :
        \E lowerCorrect \in {ToLower(correctAnswer)} :
            TrimSpace(lowerAnswer) = TrimSpace(lowerCorrect)

\* the answer is stored whatever the verdict
IncorrectAnswer_Always(userAnswer, isCorrect) == userAnswer

\* the answer is stored as it was compared
IncorrectAnswer_Normalised(userAnswer, isCorrect) ==
    IF ~isCorrect THEN TrimSpace(ToLower(userAnswer)) ELSE <<>>

\* incorrectAnswer := ""; if !isCorrect { incorrectAnswer = req.UserAnswer }
IncorrectAnswer(userAnswer, isCorrect) ==
    IF ~isCorrect THEN userAnswer ELSE <<>>

----------------------------------------------------------------------------
(* Seed data and request inputs *)

English1 == <<"H","i",".">>

English2 == <<"N","o",".">>

\* two rows of seed data; the texts are kept short ("Hi.", "No."), and the
\* second in which the rows were loaded is second 0
SeedSentences ==
    << [id |-> 1, japanese |-> "J1", english |-> English1,
        page |-> "12", is_reported |-> FALSE,
        created_at |-> 0, updated_at |-> 0],
       [id |-> 2, japanese |-> "J2", english |-> English2,
        page |-> "15", is_reported |-> FALSE,
        created_at |-> 0, updated_at |-> 0] >>

\* user_answer values submitted by the clients: "hI. ", which is English1 in
\* another case and with a trailing space, and "no.", which is English2 in
\* lower case; each is a wrong answer to the other sentence
UserAnswers == { <<"h","I","."," ">>, <<"n","o",".">> }

\* sentence_id values submitted: the ids of the sentences and 0, the decoded
\* value of an omitted field, which references no sentence
SentenceIDs == 0..Len(SeedSentences)

\* a request to /api/sentence/random
RandomRequests == {[method |-> m] : m \in Methods}

\* the sentence_id member of a JSON body: left out, null, a number, or a
\* string in quotes
Omitted == [kind |-> "omitted", number |-> 0]

Null == [kind |-> "null", number |-> 0]

Number(n) == [kind |-> "number", number |-> n]

Quoted == [kind |-> "string", number |-> 0]

\* a body that is not JSON text: "", "{", {"invalid": json}
MalformedBody ==
    [wellFormed |-> FALSE, sentence_id |-> Omitted,
     has_user_answer |-> FALSE, user_answer |-> <<>>]

\* a JSON object with these members; {} is ObjectBody(Omitted, FALSE, <<>>)
ObjectBody(sentence_id, has_user_answer, user_answer) ==
    [wellFormed |-> TRUE, sentence_id |-> sentence_id,
     has_user_answer |-> has_user_answer,
     user_answer |-> IF has_user_answer THEN user_answer ELSE <<>>]

\* a decoder that takes a body without sentence_id for invalid
DecodeInt_Required(field) ==
    [ok |-> field.kind = "number", value |-> field.number]

\* encoding/json into an int field of a zero-valued struct: a member that is
\* left out or null leaves the field 0 without an error, a number sets it,
\* and a string is an error
DecodeInt(field) ==
    [ok |-> field.kind # "string",
     value |-> IF field.kind = "number" THEN field.number ELSE 0]

\* var req CheckAnswerRequest; err := json.NewDecoder(r.Body).Decode(&req):
\* the request as the handler sees it, bodyOK when err is nil
DecodeCheckAnswerRequest(method, body) ==
    LET id == DecodeInt(body.sentence_id)
    IN  IF body.wellFormed /\ id.ok
        THEN [method |-> method, bodyOK |-> TRUE, sentence_id |-> id.value,
              user_answer |-> body.user_answer]
        ELSE [method |-> method, bodyOK |-> FALSE, sentence_id |-> 0,
              user_answer |-> <<>>]

\* var req ReportSentenceRequest; err := json.NewDecoder(r.Body).Decode(&req);
\* a member the struct does not name is ignored
DecodeReportSentenceRequest(method, body) ==
    LET id == DecodeInt(body.sentence_id)
    IN  IF body.wellFormed /\ id.ok
        THEN [method |-> method, bodyOK |-> TRUE, sentence_id |-> id.value]
        ELSE [method |-> method, bodyOK |-> FALSE, sentence_id |-> 0]

\* the sentence_id member of a body that decodes to i: a body that decodes
\* to 0 leaves the member out
FieldOf(i) == IF i = 0 THEN Omitted ELSE Number(i)

\* a request to /api/answer/check: one whose body does not decode, under each
\* method, and a POST of each decodable body
CheckRequests(ids, answers) ==
    {DecodeCheckAnswerRequest(m, MalformedBody) : m \in Methods}
    \cup {DecodeCheckAnswerRequest("POST", ObjectBody(FieldOf(i), TRUE, a)) :
        i \in ids, a \in answers}

\* a request to /api/sentence/report
ReportRequests(ids) ==
    {DecodeReportSentenceRequest(m, MalformedBody) : m \in Methods}
    \cup {DecodeReportSentenceRequest("POST", ObjectBody(FieldOf(i), FALSE, <<>>)) :
        i \in ids}

----------------------------------------------------------------------------
(* Responses *)

\* the zero value of the Sentence struct
NoSentence ==
    [id |-> 0, japanese |-> "", english |-> <<>>, page |-> "",
     is_reported |-> FALSE, correct_count |-> 0, incorrect_count |-> 0,
     created_at |-> 0, updated_at |-> 0]

\* http.Error(w, message, status), and w.WriteHeader(status) with no message
StatusResponse(status, message) ==
    [status |-> status, message |-> message, sentence |-> NoSentence,
     is_correct |-> FALSE, correct_answer |-> <<>>, histories |-> <<>>,
     histories_json |-> "absent"]

\* json.NewEncoder(w).Encode(selectedSentence); message names the body
SentenceResponse(s) ==
    [status |-> StatusOK, message |-> "sentence", sentence |-> s,
     is_correct |-> FALSE, correct_answer |-> <<>>, histories |-> <<>>,
     histories_json |-> "absent"]

\* the JSON value of a []AnswerHistory: encoding/json writes a nil slice as
\* null and every other slice, the empty one too, as an array
EncodeSlice(isNil) == IF isNil THEN "null" ELSE "array"

\* json.NewEncoder(w).Encode(CheckAnswerResponse{...}); the histories field
\* has no omitempty tag, so it is in every body
CheckAnswerResponse(isCorrect, correctAnswer, histories, historiesNil) ==
    [status |-> StatusOK, message |-> "answer", sentence |-> NoSentence,
     is_correct |-> isCorrect, correct_answer |-> correctAnswer,
     histories |-> histories,
     histories_json |-> EncodeSlice(historiesNil)]

\* the step wrote no response
NoResponse == StatusResponse(0, "")

\* a handler returns after writing response r, without a write to the store
Return(r) ==
    /\ resp' = r
    /\ UNCHANGED <<sentences, answer_histories, inflight>>

----------------------------------------------------------------------------
(* The selection query of getRandomSentence *)

\* a sum over the rows of every sentence: a join without its ON condition
SumCase_AnySentence(sid, flag, n) ==
    Cardinality({i \in 1..n : answer_histories[i].is_correct = flag})

\* SUM(CASE WHEN ah.is_correct = flag THEN 1 ELSE 0 END) over the rows joined
\* to sentence sid among the first n rows of answer_histories; the NULL row of
\* the LEFT JOIN of a sentence without history adds 0
RECURSIVE SumCase(_, _, _)
SumCase(sid, flag, n) ==
    IF n = 0 THEN 0
    ELSE SumCase(sid, flag, n - 1)
         + (IF answer_histories[n].sentence_id = sid
               /\ answer_histories[n].is_correct = flag
            THEN 1 ELSE 0)

\* one result row of the selection query, scanned into a Sentence struct
ScanSentence(s) ==
    [id |-> s.id, japanese |-> s.japanese, english |-> s.english,
     page |-> s.page, is_reported |-> s.is_reported,
     created_at |-> s.created_at, updated_at |-> s.updated_at,
     correct_count |-> SumCase(s.id, TRUE, Len(answer_histories)),
     incorrect_count |-> SumCase(s.id, FALSE, Len(answer_histories))]

\* a selection query without its WHERE clause
WhereNotReported_Missing(s) == TRUE

\* WHERE s.is_reported = false
WhereNotReported(s) == s.is_reported = FALSE

\* a selection query with HAVING ... <= 2
HavingScore_Inclusive(row) ==
    row.correct_count - row.incorrect_count <= MasteryThreshold

\* HAVING correct_count - incorrect_count < 2
HavingScore(row) == row.correct_count - row.incorrect_count < MasteryThreshold

\* the rows of the selection query over the first n sentences, in id order
RECURSIVE SelectionQuery(_)
SelectionQuery(n) ==
    IF n = 0 THEN <<>>
    ELSE LET row == ScanSentence(sentences[n])
         IN  IF WhereNotReported(sentences[n]) /\ HavingScore(row)
             THEN Append(SelectionQuery(n - 1), row)
             ELSE SelectionQuery(n - 1)

\* for rows.Next() { ... }: the numbers of rows the loop can get.  Next
\* returns false at the end of the result and also when reading from the
\* connection fails, after any number of rows; the handlers never call
\* rows.Err(), so the rows read before a failure are used as the result
RowsRead(result, rowsOK) ==
    IF rowsOK THEN {Len(result)} ELSE 0..Len(result)

\* the lists of rows the loop of getRandomSentence can get
RowsNext(result, rowsOK) ==
    {SubSeq(result, 1, k) : k \in RowsRead(result, rowsOK)}

\* a draw that always takes the first row
RandIntn_First(n) == {0}

\* rand.Intn(len(sentences)): an index in [0, n)
RandIntn(n) == 0..(n - 1)

\* selectedSentence := sentences[randomIndex]
SelectSentence(rows, randomIndex) == rows[randomIndex + 1]

----------------------------------------------------------------------------
(* getRandomSentence *)

\* a handler that marks the sentence it serves
GetRandomSentence_Marking(r, queryOK, rowsOK) ==
    IF r.method = "OPTIONS" THEN Return(StatusResponse(StatusNoContent, ""))
    ELSE IF r.method # "GET"
    THEN Return(StatusResponse(StatusMethodNotAllowed, "Method not allowed"))
    ELSE IF ~queryOK
    THEN Return(StatusResponse(StatusInternalServerError, "Internal server error"))
    ELSE \E result \in {SelectionQuery(Len(sentences))} :
         \E rows \in RowsNext(result, rowsOK) :
            IF Len(rows) = 0
            THEN Return(StatusResponse(StatusNotFound, "No sentences found"))
            ELSE \E randomIndex \in RandIntn(Len(rows)) :
                     /\ resp' = SentenceResponse(SelectSentence(rows, randomIndex))
                     /\ sentences' =
                           [n \in 1..Len(sentences) |->
                               IF sentences[n].id
                                     = SelectSentence(rows, randomIndex).id
                               THEN [sentences[n] EXCEPT !.is_reported = TRUE]
                               ELSE sentences[n]]
                     /\ UNCHANGED <<answer_histories, inflight>>

\* queryOK is false when db.Query or a rows.Scan returns an error, rowsOK
\* when the reading of the result fails
GetRandomSentence(r, queryOK, rowsOK) ==
    IF r.method = "OPTIONS" THEN Return(StatusResponse(StatusNoContent, ""))
    ELSE IF r.method # "GET"
    THEN Return(StatusResponse(StatusMethodNotAllowed, "Method not allowed"))
    ELSE IF ~queryOK
    THEN Return(StatusResponse(StatusInternalServerError, "Internal server error"))
    ELSE \E result \in {SelectionQuery(Len(sentences))} :
         \E rows \in RowsNext(result, rowsOK) :
            IF Len(rows) = 0
            THEN Return(StatusResponse(StatusNotFound, "No sentences found"))
            ELSE \E randomIndex \in RandIntn(Len(rows)) :
                     Return(SentenceResponse(SelectSentence(rows, randomIndex)))

----------------------------------------------------------------------------
(* The lookup query of checkAnswer *)

\* a join without its sentence_id condition
WrongRows_AnySentence(sid) ==
    {i \in 1..Len(answer_histories) : answer_histories[i].is_correct = FALSE}

\* the answer_histories rows joined to sentence sid: ah.is_correct = false
WrongRows(sid) ==
    {i \in 1..Len(answer_histories) :
        /\ answer_histories[i].sentence_id = sid
        /\ answer_histories[i].is_correct = FALSE}

\* ORDER BY ah.created_at ASC
RECURSIVE OrderByCreatedAt_Asc(_)
OrderByCreatedAt_Asc(rows) ==
    IF rows = {} THEN {<<>>}
    ELSE UNION {{<<i>> \o f : f \in OrderByCreatedAt_Asc(rows \ {i})} :
                i \in {i \in rows : \A j \in rows :
                          answer_histories[i].created_at
                              <= answer_histories[j].created_at}}

\* ORDER BY ah.created_at DESC: every order of the rows in which created_at
\* does not increase (rows of the same second come in any order); a latest
\* row comes first, the others follow in such an order
RECURSIVE OrderByCreatedAtDesc(_)
OrderByCreatedAtDesc(rows) ==
    IF rows = {} THEN {<<>>}
    ELSE UNION {{<<i>> \o f : f \in OrderByCreatedAtDesc(rows \ {i})} :
                i \in {i \in rows : \A j \in rows :
                          answer_histories[i].created_at
                              >= answer_histories[j].created_at}}

\* a lookup query that takes no reported sentence: AND s.is_reported = false
LookupQuery_NotReported(sid) ==
    IF ~(\E n \in 1..Len(sentences) :
            sentences[n].id = sid /\ ~sentences[n].is_reported)
    THEN {<<>>}
    ELSE LET s == sentences[CHOOSE n \in 1..Len(sentences) : sentences[n].id = sid]
         IN  IF WrongRows(sid) = {}
             THEN {<<[english |-> s.english, history_id |-> 0,
                      incorrect_answer |-> <<>>, history_created_at |-> 0]>>}
             ELSE {[k \in 1..Len(f) |->
                      [english |-> s.english,
                       history_id |-> answer_histories[f[k]].id,
                       incorrect_answer |-> answer_histories[f[k]].incorrect_answer,
                       history_created_at |-> answer_histories[f[k]].created_at]] :
                   f \in OrderByCreatedAtDesc(WrongRows(sid))}

\* the possible results of the lookup query for sentence_id sid: no row when
\* no sentence has that id, one row with COALESCEd NULLs when the sentence
\* has no wrong answer, else one row per wrong answer
LookupQuery(sid) ==
    IF ~(\E n \in 1..Len(sentences) : sentences[n].id = sid) THEN {<<>>}
    ELSE LET s == sentences[CHOOSE n \in 1..Len(sentences) : sentences[n].id = sid]
         IN  IF WrongRows(sid) = {}
             THEN {<<[english |-> s.english, history_id |-> 0,
                      incorrect_answer |-> <<>>, history_created_at |-> 0]>>}
             ELSE {[k \in 1..Len(f) |->
                      [english |-> s.english,
                       history_id |-> answer_histories[f[k]].id,
                       incorrect_answer |-> answer_histories[f[k]].incorrect_answer,
                       history_created_at |-> answer_histories[f[k]].created_at]] :
                   f \in OrderByCreatedAtDesc(WrongRows(sid))}

\* if historyID > 0 { histories = append(histories, AnswerHistory{...}) }
AppendHistory(histories, row) ==
    IF row.history_id > 0
    THEN Append(histories, [id |-> row.history_id,
                            incorrect_answer |-> row.incorrect_answer,
                            created_at |-> row.history_created_at])
    ELSE histories

\* a loop that starts with sentenceFound set
ScanRows_Found(rows, k) ==
    [correctAnswer |-> IF k = 0 THEN <<>> ELSE rows[k].english,
     histories |-> <<>>, historiesNil |-> FALSE, sentenceFound |-> TRUE]

\* a loop over a slice that is declared and not made: var histories
\* []AnswerHistory, which is nil until the first append
RECURSIVE ScanRows_NilSlice(_, _)
ScanRows_NilSlice(rows, k) ==
    IF k = 0
    THEN [correctAnswer |-> <<>>, histories |-> <<>>, historiesNil |-> TRUE,
          sentenceFound |-> FALSE]
    ELSE LET before == ScanRows_NilSlice(rows, k - 1)
         IN  [correctAnswer |-> rows[k].english,
              histories |-> AppendHistory(before.histories, rows[k]),
              historiesNil |-> before.historiesNil /\ ~(rows[k].history_id > 0),
              sentenceFound |-> TRUE]

\* the for rows.Next() loop over the first k rows of the result; the columns
\* are scanned into variables of their own types, so the branch of a failed
\* Scan is not taken.  histories := make([]AnswerHistory, 0) is an empty
\* slice that is not nil, and append never gives a nil slice
RECURSIVE ScanRows(_, _)
ScanRows(rows, k) ==
    IF k = 0
    THEN [correctAnswer |-> <<>>, histories |-> <<>>, historiesNil |-> FALSE,
          sentenceFound |-> FALSE]
    ELSE LET before == ScanRows(rows, k - 1)
         IN  [correctAnswer |-> rows[k].english,
              histories |-> AppendHistory(before.histories, rows[k]),
              historiesNil |-> before.historiesNil /\ ~(rows[k].history_id > 0),
              sentenceFound |-> TRUE]

----------------------------------------------------------------------------
(* checkAnswer *)

\* the locals of a call after its lookup and before its insert
Call(r, scanned, isCorrect) ==
    [req |-> [sentence_id |-> r.sentence_id, user_answer |-> r.user_answer],
     correctAnswer |-> scanned.correctAnswer,
     histories |-> scanned.histories,
     historiesNil |-> scanned.historiesNil,
     isCorrect |-> isCorrect,
     incorrectAnswer |-> IncorrectAnswer(r.user_answer, isCorrect)]

\* from the method check to the end of the comparison; a call that found its
\* sentence goes on to its insert.  queryOK is false when db.Query returns an
\* error, rowsOK when the reading of the result fails
CheckAnswerLookup(r, queryOK, rowsOK) ==
    IF r.method = "OPTIONS" THEN Return(StatusResponse(StatusNoContent, ""))
    ELSE IF r.method # "POST"
    THEN Return(StatusResponse(StatusMethodNotAllowed, "Method not allowed"))
    ELSE IF ~r.bodyOK
    THEN Return(StatusResponse(StatusBadRequest, "Invalid request body"))
    ELSE IF ~queryOK
    THEN Return(StatusResponse(StatusInternalServerError, "Internal server error"))
    ELSE \E result \in LookupQuery(r.sentence_id) :
         \E scanned \in {ScanRows(result, k) : k \in RowsRead(result, rowsOK)} :
            IF ~scanned.sentenceFound
            THEN Return(StatusResponse(StatusNotFound, "Sentence not found"))
            ELSE /\ \E isCorrect \in {IsCorrect(r.user_answer,
                                                scanned.correctAnswer)} :
                        inflight' = inflight
                                       (+) SetToBag({Call(r, scanned, isCorrect)})
                 /\ resp' = NoResponse
                 /\ UNCHANGED <<sentences, answer_histories>>

\* CURRENT_TIMESTAMP of an insert: the second of the previous insert, or later
CurrentTimestamp(elapsed) ==
    IF Len(answer_histories) = 0 THEN 1
    ELSE answer_histories[Len(answer_histories)].created_at + elapsed

\* an insert that keeps one row per sentence, the latest
InsertHistory_Replace(sentence_id, isCorrect, incorrectAnswer, elapsed) ==
    Append(SelectSeq(answer_histories,
                     LAMBDA row : row.sentence_id # sentence_id),
           [id |-> Len(answer_histories) + 1,
            sentence_id |-> sentence_id,
            is_correct |-> isCorrect,
            incorrect_answer |-> incorrectAnswer,
            created_at |-> CurrentTimestamp(elapsed)])

\* an insert that skips a row already recorded for the sentence
InsertHistory_Once(sentence_id, isCorrect, incorrectAnswer, elapsed) ==
    IF \E i \in 1..Len(answer_histories) :
          /\ answer_histories[i].sentence_id = sentence_id
          /\ answer_histories[i].is_correct = isCorrect
          /\ answer_histories[i].incorrect_answer = incorrectAnswer
    THEN answer_histories
    ELSE Append(answer_histories,
                [id |-> Len(answer_histories) + 1,
                 sentence_id |-> sentence_id,
                 is_correct |-> isCorrect,
                 incorrect_answer |-> incorrectAnswer,
                 created_at |-> 1])

\* an insert that records no correct answer to a sentence whose score has
\* reached the threshold
InsertHistory_Capped(sentence_id, isCorrect, incorrectAnswer, elapsed) ==
    IF /\ isCorrect
       /\ SumCase(sentence_id, TRUE, Len(answer_histories))
             - SumCase(sentence_id, FALSE, Len(answer_histories))
                >= MasteryThreshold
    THEN answer_histories
    ELSE Append(answer_histories,
                [id |-> Len(answer_histories) + 1,
                 sentence_id |-> sentence_id,
                 is_correct |-> isCorrect,
                 incorrect_answer |-> incorrectAnswer,
                 created_at |-> CurrentTimestamp(elapsed)])

\* an insert under a unique key on sentence_id: a sentence that has a row
\* gets no other
InsertHistory_UniqueSentence(sentence_id, isCorrect, incorrectAnswer, elapsed) ==
    IF \E i \in 1..Len(answer_histories) :
          answer_histories[i].sentence_id = sentence_id
    THEN answer_histories
    ELSE Append(answer_histories,
                [id |-> Len(answer_histories) + 1,
                 sentence_id |-> sentence_id,
                 is_correct |-> isCorrect,
                 incorrect_answer |-> incorrectAnswer,
                 created_at |-> CurrentTimestamp(elapsed)])

\* an insert that leaves is_correct to a column default of true
InsertHistory_DefaultCorrect(sentence_id, isCorrect, incorrectAnswer, elapsed) ==
    Append(answer_histories,
           [id |-> Len(answer_histories) + 1,
            sentence_id |-> sentence_id,
            is_correct |-> TRUE,
            incorrect_answer |-> incorrectAnswer,
            created_at |-> CurrentTimestamp(elapsed)])

\* INSERT INTO answer_histories (sentence_id, is_correct, incorrect_answer)
InsertHistory(sentence_id, isCorrect, incorrectAnswer, elapsed) ==
    Append(answer_histories,
           [id |-> Len(answer_histories) + 1,
            sentence_id |-> sentence_id,
            is_correct |-> isCorrect,
            incorrect_answer |-> incorrectAnswer,
            created_at |-> CurrentTimestamp(elapsed)])

\* a handler that answers 500 when its insert fails
CheckAnswerInsert_FailsRequest(call, execOK, elapsed) ==
    /\ BagIn(call, inflight)
    /\ inflight' = inflight (-) SetToBag({call})
    /\ answer_histories' =
           IF execOK
           THEN InsertHistory(call.req.sentence_id, call.isCorrect,
                              call.incorrectAnswer, elapsed)
           ELSE answer_histories
    /\ resp' = IF execOK
               THEN CheckAnswerResponse(call.isCorrect, call.correctAnswer,
                                        call.histories, call.historiesNil)
               ELSE StatusResponse(StatusInternalServerError,
                                   "Internal server error")
    /\ UNCHANGED sentences

\* an insert that ends the other calls for its sentence: they answer nothing
\* and their rows are never written
CheckAnswerInsert_Exclusive(call, execOK, elapsed) ==
    /\ BagIn(call, inflight)
    /\ inflight' =
           [other \in {c \in BagToSet(inflight) :
                          c.req.sentence_id # call.req.sentence_id} |->
               inflight[other]]
    /\ answer_histories' =
           IF execOK
           THEN InsertHistory(call.req.sentence_id, call.isCorrect,
                              call.incorrectAnswer, elapsed)
           ELSE answer_histories
    /\ resp' = CheckAnswerResponse(call.isCorrect, call.correctAnswer,
                                   call.histories, call.historiesNil)
    /\ UNCHANGED sentences

\* the insert (its failure is logged and ignored) and the response
CheckAnswerInsert(call, execOK, elapsed) ==
    /\ BagIn(call, inflight)
    /\ inflight' = inflight (-) SetToBag({call})
    /\ answer_histories' =
           IF execOK
           THEN InsertHistory(call.req.sentence_id, call.isCorrect,
                              call.incorrectAnswer, elapsed)
           ELSE answer_histories
    /\ resp' = CheckAnswerResponse(call.isCorrect, call.correctAnswer,
                                   call.histories, call.historiesNil)
    /\ UNCHANGED sentences

----------------------------------------------------------------------------
(* reportSentence *)

\* updated_at ... ON UPDATE CURRENT_TIMESTAMP: a row that an UPDATE changes
\* gets a later updated_at; a row that it sets to the values it has keeps
\* its updated_at
OnUpdateCurrentTimestamp(old, new) ==
    IF new = old THEN old ELSE [new EXCEPT !.updated_at = old.updated_at + 1]

\* a report that deletes the sentence
UpdateReported_Delete(sentence_id) ==
    SelectSeq(sentences, LAMBDA s : s.id # sentence_id)

\* an update that keeps the flag on the latest reported sentence only
UpdateReported_Exclusive(sentence_id) ==
    [n \in 1..Len(sentences) |->
        OnUpdateCurrentTimestamp(
            sentences[n],
            [sentences[n] EXCEPT !.is_reported = (sentences[n].id = sentence_id)])]

\* an update that flips the flag
UpdateReported_Toggle(sentence_id) ==
    [n \in 1..Len(sentences) |->
        IF sentences[n].id = sentence_id
        THEN OnUpdateCurrentTimestamp(
                 sentences[n],
                 [sentences[n] EXCEPT !.is_reported = ~sentences[n].is_reported])
        ELSE sentences[n]]

\* UPDATE sentences SET is_reported = true WHERE id = ?
UpdateReported(sentence_id) ==
    [n \in 1..Len(sentences) |->
        IF sentences[n].id = sentence_id
        THEN OnUpdateCurrentTimestamp(
                 sentences[n], [sentences[n] EXCEPT !.is_reported = TRUE])
        ELSE sentences[n]]

\* a handler that decodes the body before it looks at the method
ReportSentence_DecodeFirst(r, execOK) ==
    IF r.method = "OPTIONS" THEN Return(StatusResponse(StatusNoContent, ""))
    ELSE IF ~r.bodyOK
    THEN Return(StatusResponse(StatusBadRequest, "Invalid request body"))
    ELSE IF r.method # "POST"
    THEN Return(StatusResponse(StatusMethodNotAllowed, "Method not allowed"))
    ELSE IF ~execOK
    THEN Return(StatusResponse(StatusInternalServerError, "Internal server error"))
    ELSE /\ sentences' = UpdateReported(r.sentence_id)
         /\ resp' = StatusResponse(StatusNoContent, "")
         /\ UNCHANGED <<answer_histories, inflight>>

ReportSentence(r, execOK) ==
    IF r.method = "OPTIONS" THEN Return(StatusResponse(StatusNoContent, ""))
    ELSE IF r.method # "POST"
    THEN Return(StatusResponse(StatusMethodNotAllowed, "Method not allowed"))
    ELSE IF ~r.bodyOK
    THEN Return(StatusResponse(StatusBadRequest, "Invalid request body"))
    ELSE IF ~execOK
    THEN Return(StatusResponse(StatusInternalServerError, "Internal server error"))
    ELSE /\ sentences' = UpdateReported(r.sentence_id)
         /\ resp' = StatusResponse(StatusNoContent, "")
         /\ UNCHANGED <<answer_histories, inflight>>

----------------------------------------------------------------------------
(* The server *)

Init ==
    /\ sentences = SeedSentences
    /\ answer_histories = <<>>
    /\ inflight = EmptyBag
    /\ resp = NoResponse

\* the outcomes of a SQL statement: drawn only when the request reaches it
StatementOK(reached) == IF reached THEN BOOLEAN ELSE {TRUE}

\* the requests the server is sent
AnswerCheckRequests == CheckRequests(SentenceIDs, UserAnswers)

SentenceReportRequests == ReportRequests(SentenceIDs)

\* the table is explored up to MaxRows rows: a request that can dispatch a
\* call, one whose lookup looks for a sentence of the table, is served only
\* while the rows inserted and about to be inserted are fewer
WithinMaxRows(r, queryOK) ==
    (/\ r.method = "POST"
     /\ r.bodyOK
     /\ queryOK
     /\ \E n \in 1..Len(sentences) : sentences[n].id = r.sentence_id) =>
        Len(answer_histories) + BagCardinality(inflight) < MaxRows

Next ==
    \/ \E r \in AnswerCheckRequests :
           \E queryOK \in StatementOK(r.method = "POST" /\ r.bodyOK) :
               \E rowsOK \in StatementOK(r.method = "POST" /\ r.bodyOK /\ queryOK) :
                   WithinMaxRows(r, queryOK) /\ CheckAnswerLookup(r, queryOK, rowsOK)
    \/ \E call \in BagToSet(inflight), execOK \in BOOLEAN :
           \E elapsed \in (IF execOK THEN 0..1 ELSE {0}) :
               CheckAnswerInsert(call, execOK, elapsed)
    \/ \E r \in RandomRequests :
           \E queryOK \in StatementOK(r.method = "GET") :
               \E rowsOK \in StatementOK(r.method = "GET" /\ queryOK) :
                   GetRandomSentence(r, queryOK, rowsOK)
    \/ \E r \in SentenceReportRequests :
           \E execOK \in StatementOK(r.method = "POST" /\ r.bodyOK) :
               ReportSentence(r, execOK)

Spec == Init /\ [][Next]_vars

----------------------------------------------------------------------------
(* The answer comparison on every short text: one sentence whose english   *)
(* is any text of at most MaxLen characters, or the example of the         *)
(* documentation, and one checkAnswer call at a time with any such answer. *)

\* a letter in both cases, a space and a punctuation mark
Alphabet == {"a", "A", " ", "."}

\* the texts of at most n characters
Texts(n) == UNION {[1..k -> Alphabet] : k \in 0..n}

\* "I don't have time."
ExampleEnglish ==
    <<"I"," ","d","o","n","'","t"," ","h","a","v","e"," ","t","i","m","e",".">>

\* "I Don't Have Time.  ", "i don't have time." and "I have no time."
ExampleAnswers ==
    { <<"I"," ","D","o","n","'","t"," ","H","a","v","e"," ","T","i","m","e","."," "," ">>,
      <<"i"," ","d","o","n","'","t"," ","h","a","v","e"," ","t","i","m","e",".">>,
      <<"I"," ","h","a","v","e"," ","n","o"," ","t","i","m","e",".">> }

EvalInit ==
    /\ \E english \in Texts(MaxLen) \cup {ExampleEnglish} :
          sentences = << [id |-> 1, japanese |-> "J1", english |-> english,
                          page |-> "12", is_reported |-> FALSE,
                          created_at |-> 0, updated_at |-> 0] >>
    /\ answer_histories = <<>>
    /\ inflight = EmptyBag
    /\ resp = NoResponse

EvalNext ==
    \/ /\ answer_histories = <<>>
       /\ inflight = EmptyBag
       /\ \E user_answer \in Texts(MaxLen) \cup ExampleAnswers :
             CheckAnswerLookup([method |-> "POST", bodyOK |-> TRUE,
                                sentence_id |-> 1, user_answer |-> user_answer],
                               TRUE, TRUE)
    \/ \E call \in BagToSet(inflight), execOK \in BOOLEAN :
           CheckAnswerInsert(call, execOK, 0)

EvalSpec == EvalInit /\ [][EvalNext]_vars

----------------------------------------------------------------------------
(* Definitions the properties are stated with; they are written from the   *)
(* data model, not from the queries above.                                  *)

\* the number of history rows of sentence sid with outcome flag
CountRows(sid, flag) ==
    Cardinality({i \in 1..Len(answer_histories) :
                    /\ answer_histories[i].sentence_id = sid
                    /\ answer_histories[i].is_correct = flag})

\* the mastery score of sentence sid
Score(sid) == CountRows(sid, TRUE) - CountRows(sid, FALSE)

\* the ids of the eligible sentences
Eligible ==
    {sentences[n].id : n \in {m \in 1..Len(sentences) :
        ~sentences[m].is_reported /\ Score(sentences[m].id) < 2}}

\* the latest step was a getRandomSentence that answered 200 with a sentence
ReturnedSentence == resp.status = StatusOK /\ resp.message = "sentence"

\* the latest step was a checkAnswer that answered 200 with its verdict
ReturnedVerdict == resp.status = StatusOK /\ resp.message = "answer"

\* a well-formed request to /api/sentence/random
GetRequest == [method |-> "GET"]

\* the decodable POSTs to /api/answer/check
PostRequests ==
    {r \in CheckRequests(SentenceIDs, UserAnswers) : r.method = "POST" /\ r.bodyOK}

\* the english text of the sentence with id sid
EnglishOf(sid) ==
    sentences[CHOOSE n \in 1..Len(sentences) : sentences[n].id = sid].english

\* this step is the lookup of a call that found its sentence
Dispatched(call) == inflight' = inflight (+) SetToBag({call})

\* this step is the insert and the response of call
Completes(call) ==
    /\ BagIn(call, inflight)
    /\ inflight' = inflight (-) SetToBag({call})
    /\ resp'.status = StatusOK
    /\ resp'.message = "answer"

\* the row a step added
NewRow == answer_histories'[Len(answer_histories')]

\* this step added one row and changed no other
AddsOneRow ==
    /\ Len(answer_histories') = Len(answer_histories) + 1
    /\ SubSeq(answer_histories', 1, Len(answer_histories)) = answer_histories

\* this step wrote nothing to the store and dispatched no call
StoreUnchanged == UNCHANGED <<sentences, answer_histories, inflight>>

\* the latest response is 204 without a body, as after an OPTIONS request.
\* A handler reads its request and the store and never the response to an
\* earlier request, so what the handlers can do in a state they can do in
\* every state of the same store; the properties of what they can do are
\* stated for the state of each store that an OPTIONS request leaves
AfterPreflight == resp = StatusResponse(StatusNoContent, "")

\* every reachable store is seen after a preflight: in every state a request
\* can be served that leaves the store as it is and answers 204
EveryStoreAfterPreflight ==
    ENABLED (/\ Next
             /\ StoreUnchanged
             /\ resp' = StatusResponse(StatusNoContent, ""))

----------------------------------------------------------------------------
(* C1 *)

\* C1: a sentence returned by getRandomSentence is, in the store the
\* selection query read, not reported and of score below 2; its returned
\* is_reported is false and its returned counts differ by less than 2.
C1_ReturnedIsEligible ==
    ReturnedSentence =>
        /\ \E n \in 1..Len(sentences) :
              /\ sentences[n].id = resp.sentence.id
              /\ sentences[n].is_reported = FALSE
              /\ Score(sentences[n].id) < 2
        /\ resp.sentence.is_reported = FALSE
        /\ resp.sentence.correct_count - resp.sentence.incorrect_count < 2

\* a sentence is returned while the other one is retired by its score
C1_Witness ==
    /\ ReturnedSentence
    /\ \E n \in 1..Len(sentences) :
          /\ sentences[n].id # resp.sentence.id
          /\ ~sentences[n].is_reported
          /\ Score(sentences[n].id) >= 2

----------------------------------------------------------------------------
(* C2 *)

\* C2: in every state every eligible sentence is a possible result of a GET
\* of the random sentence, and a sentence that is not reported and has no
\* history row can be returned with both counts 0.
C2_EveryEligibleCanBeReturned ==
    AfterPreflight =>
        \A n \in 1..Len(sentences) :
            /\ sentences[n].id \in Eligible =>
                  ENABLED (/\ GetRandomSentence(GetRequest, TRUE, TRUE)
                           /\ resp'.status = StatusOK
                           /\ resp'.sentence.id = sentences[n].id)
            /\ (/\ ~sentences[n].is_reported
                /\ CountRows(sentences[n].id, TRUE) = 0
                /\ CountRows(sentences[n].id, FALSE) = 0) =>
                  ENABLED (/\ GetRandomSentence(GetRequest, TRUE, TRUE)
                           /\ resp'.status = StatusOK
                           /\ resp'.sentence.id = sentences[n].id
                           /\ resp'.sentence.correct_count = 0
                           /\ resp'.sentence.incorrect_count = 0)

\* the second of two eligible sentences was returned, the first has history
\* and the second has none
C2_Witness ==
    /\ ReturnedSentence
    /\ Cardinality(Eligible) = 2
    /\ resp.sentence.id = 2
    /\ CountRows(1, FALSE) > 0
    /\ CountRows(2, TRUE) + CountRows(2, FALSE) = 0

----------------------------------------------------------------------------
(* C3 *)

\* the response of this step is 404 when no sentence is eligible and else is
\* 200 with an eligible sentence
NotFoundIffNoneEligible ==
    /\ resp'.status \in {StatusOK, StatusNotFound}
    /\ resp'.status = StatusNotFound <=> Eligible = {}
    /\ resp'.status = StatusOK =>
          resp'.message = "sentence" /\ resp'.sentence.id \in Eligible

\* C3: in every state, a GET of the random sentence whose query succeeds
\* answers 404 exactly when no sentence is eligible, and otherwise 200 with
\* one eligible sentence.
C3_NotFoundIffNoneEligible ==
    AfterPreflight =>
        ~ENABLED (GetRandomSentence(GetRequest, TRUE, TRUE) /\ ~NotFoundIffNoneEligible)

\* 404 is answered with one sentence reported and the other retired by score
C3_Witness ==
    /\ resp.status = StatusNotFound
    /\ resp.message = "No sentences found"
    /\ \E n \in 1..Len(sentences) : sentences[n].is_reported
    /\ \E n \in 1..Len(sentences) :
          ~sentences[n].is_reported /\ Score(sentences[n].id) >= 2

----------------------------------------------------------------------------
(* C4 *)

\* s without its leading white space
RECURSIVE DropLeading(_)
DropLeading(s) ==
    IF s # <<>> /\ Head(s) \in {" ", "\t", "\n", "\r", "\f"}
    THEN DropLeading(Tail(s))
    ELSE s

\* s without its trailing white space
RECURSIVE DropTrailing(_)
DropTrailing(s) ==
    IF s # <<>> /\ s[Len(s)] \in {" ", "\t", "\n", "\r", "\f"}
    THEN DropTrailing(SubSeq(s, 1, Len(s) - 1))
    ELSE s

\* a and b have the same characters, up to the case of the letters
EqualFold(a, b) ==
    /\ Len(a) = Len(b)
    /\ \A i \in 1..Len(a) :
          \/ a[i] = b[i]
          \/ \E k \in 1..26 : {a[i], b[i]} = {UpperCase[k], LowerCase[k]}

\* a and b are equal after trimming and case folding, and nothing else
EqualTrimmedFolded(a, b) ==
    EqualFold(DropTrailing(DropLeading(a)), DropTrailing(DropLeading(b)))

\* C4: the verdict computed for, and returned to, every call on an existing
\* sentence is true exactly when the user answer and the stored english text
\* are equal after trimming leading and trailing white space and folding the
\* case; punctuation and inner white space count.
C4_VerdictIsTrimmedFoldedEquality ==
    \A call \in BagToSet(inflight) :
        /\ call.isCorrect =
              EqualTrimmedFolded(call.req.user_answer,
                                 EnglishOf(call.req.sentence_id))
        /\ \A execOK \in BOOLEAN :
              ~ENABLED (/\ CheckAnswerInsert(call, execOK, 0)
                        /\ resp'.is_correct #
                              EqualTrimmedFolded(call.req.user_answer,
                                                 EnglishOf(call.req.sentence_id)))

\* an answer of another case and with other surrounding white space than the
\* english text was judged correct
C4_Witness ==
    \E call \in BagToSet(inflight) :
        /\ call.isCorrect
        /\ Len(call.req.user_answer) # Len(call.correctAnswer)
        /\ DropTrailing(DropLeading(call.req.user_answer))
              # DropTrailing(DropLeading(call.correctAnswer))

----------------------------------------------------------------------------
(* C5 *)

\* C5 as stated: in every row, incorrect_answer is non-empty if and only if
\* is_correct is false.
C5_NonEmptyIffIncorrect ==
    \A i \in 1..Len(answer_histories) :
        answer_histories[i].incorrect_answer # <<>>
            <=> ~answer_histories[i].is_correct

\* C5 amended: every row with is_correct true has an empty incorrect_answer,
\* and the row inserted by a call has an empty incorrect_answer exactly when
\* the verdict is correct or the user answer itself is empty.
C5_NonEmptyIffIncorrectAndAnswered ==
    /\ \A i \in 1..Len(answer_histories) :
          answer_histories[i].is_correct =>
              answer_histories[i].incorrect_answer = <<>>
    /\ \A call \in BagToSet(inflight) :
          ~ENABLED (/\ CheckAnswerInsert(call, TRUE, 0)
                    /\ ~(NewRow.incorrect_answer = <<>>
                            <=> (resp'.is_correct \/ call.req.user_answer = <<>>)))

\* a white-space-only answer was judged incorrect and stored as it was sent
C5_Witness ==
    /\ ReturnedVerdict
    /\ ~resp.is_correct
    /\ Len(answer_histories) = 1
    /\ ~answer_histories[1].is_correct
    /\ answer_histories[1].incorrect_answer = <<" ", " ">>

----------------------------------------------------------------------------
(* C6 *)

\* the row this step added is the record of call and of the verdict returned
InsertedRowIsVerbatim(call) ==
    /\ AddsOneRow
    /\ NewRow.sentence_id = call.req.sentence_id
    /\ NewRow.is_correct = resp'.is_correct
    /\ resp'.is_correct => NewRow.incorrect_answer = <<>>
    /\ ~resp'.is_correct => NewRow.incorrect_answer = call.req.user_answer

\* C6: the row inserted by a call has the requested sentence_id and the
\* verdict returned to the caller; its incorrect_answer is empty when the
\* verdict is correct and is the user answer as it was sent, in its case and
\* with its surrounding white space, when the verdict is incorrect.
C6_InsertedRowIsVerbatim ==
    AfterPreflight =>
        \A call \in BagToSet(inflight), elapsed \in 0..1 :
            ~ENABLED (/\ CheckAnswerInsert(call, TRUE, elapsed)
                      /\ ~InsertedRowIsVerbatim(call))

\* "hI. " was sent for sentence 2, judged incorrect and stored with its
\* capital letter and its trailing space
C6_Witness ==
    /\ ReturnedVerdict
    /\ ~resp.is_correct
    /\ answer_histories # <<>>
    /\ answer_histories[Len(answer_histories)].sentence_id = 2
    /\ ~answer_histories[Len(answer_histories)].is_correct
    /\ answer_histories[Len(answer_histories)].incorrect_answer
          = <<"h", "I", ".", " ">>

----------------------------------------------------------------------------
(* C7 *)

\* the decodable POSTs whose sentence_id references a sentence
KnownSentenceRequests ==
    {r \in PostRequests :
        \E n \in 1..Len(sentences) : sentences[n].id = r.sentence_id}

\* C7 as stated: every call on an existing sentence that completes adds
\* exactly one row.
C7_EveryCallAddsOneRow ==
    [][\A call \in BagToSet(inflight) : Completes(call) => AddsOneRow]_vars

\* C7 amended: a call on an existing sentence whose lookup query returns an
\* error answers 500 and adds no row; one whose lookup result is read to its
\* end goes on to its insert without a write; one whose lookup result breaks
\* off goes on in the same way or, when no row was read, answers 404 and
\* adds no row; the insert, when it succeeds, adds exactly one row whatever
\* the verdict and whatever rows exist already, and when it fails adds no
\* row and the call still answers 200.
C7_CallAddsOneRowUnlessStatementFails ==
    [](AfterPreflight =>
           /\ \A r \in KnownSentenceRequests :
                 /\ ~ENABLED (/\ CheckAnswerLookup(r, FALSE, TRUE)
                              /\ ~(/\ resp'.status = StatusInternalServerError
                                   /\ StoreUnchanged))
                 /\ ~ENABLED (/\ CheckAnswerLookup(r, TRUE, TRUE)
                              /\ ~(/\ UNCHANGED <<sentences, answer_histories>>
                                   /\ BagCardinality(inflight')
                                         = BagCardinality(inflight) + 1))
                 /\ ~ENABLED (/\ CheckAnswerLookup(r, TRUE, FALSE)
                              /\ ~(/\ UNCHANGED <<sentences, answer_histories>>
                                   /\ \/ BagCardinality(inflight')
                                            = BagCardinality(inflight) + 1
                                      \/ /\ resp'.status = StatusNotFound
                                         /\ UNCHANGED inflight))
           /\ \A call \in BagToSet(inflight) :
                 /\ \A elapsed \in 0..1 :
                       ~ENABLED (/\ CheckAnswerInsert(call, TRUE, elapsed)
                                 /\ ~(AddsOneRow /\ resp'.status = StatusOK))
                 /\ ~ENABLED (/\ CheckAnswerInsert(call, FALSE, 0)
                              /\ ~(/\ UNCHANGED answer_histories
                                   /\ resp'.status = StatusOK)))

\* two identical submissions have left two rows, one of a correct and one
\* of an incorrect answer has been added as well
C7_Witness ==
    /\ ReturnedVerdict
    /\ Len(answer_histories) = 3
    /\ \E i, j \in 1..3 :
          /\ i # j
          /\ answer_histories[i].sentence_id = answer_histories[j].sentence_id
          /\ answer_histories[i].is_correct = answer_histories[j].is_correct
          /\ answer_histories[i].incorrect_answer
                = answer_histories[j].incorrect_answer
    /\ \E i, j \in 1..3 :
          answer_histories[i].is_correct /\ ~answer_histories[j].is_correct

----------------------------------------------------------------------------
(* C8 *)

\* the rows of sentence sid that record a wrong answer
PriorWrong(sid) ==
    {i \in 1..Len(answer_histories) :
        /\ answer_histories[i].sentence_id = sid
        /\ ~answer_histories[i].is_correct}

\* the ids of the entries of a histories list
HistoryIds(histories) == {histories[k].id : k \in 1..Len(histories)}

\* histories has one entry per row of rows, and no other entry
CopiesOfRows(histories, rows) ==
    /\ Len(histories) = Cardinality(rows)
    /\ HistoryIds(histories) = {answer_histories[i].id : i \in rows}
    /\ \A k \in 1..Len(histories) : \A i \in rows :
          histories[k].id = answer_histories[i].id =>
              /\ histories[k].incorrect_answer
                    = answer_histories[i].incorrect_answer
              /\ histories[k].created_at = answer_histories[i].created_at

\* C8 as stated: the list returned by a call is the wrong rows of its
\* sentence that exist before the insert of the call.
C8_HistoriesAreRowsBeforeInsert ==
    [][\A call \in BagToSet(inflight) :
          Completes(call) =>
              CopiesOfRows(resp'.histories, PriorWrong(call.req.sentence_id))]_vars

\* C8 amended: the list a call returns is the list its lookup built, which
\* is, when the result of the lookup query is read to its end, the wrong
\* rows of its sentence that exist when the lookup runs, and some of them
\* when the result breaks off: no correct row, no row of another sentence,
\* and never the row the call inserts itself.
C8_HistoriesAreRowsAtLookup ==
    [](/\ \A call \in BagToSet(inflight) :
             \E rows \in SUBSET PriorWrong(call.req.sentence_id) :
                CopiesOfRows(call.histories, rows)
       /\ AfterPreflight =>
             /\ \A r \in KnownSentenceRequests :
                   ~ENABLED (/\ CheckAnswerLookup(r, TRUE, TRUE)
                             /\ \E call \in BagToSet(inflight') :
                                   /\ Dispatched(call)
                                   /\ ~CopiesOfRows(call.histories,
                                                    PriorWrong(r.sentence_id)))
             /\ \A call \in BagToSet(inflight) : \A elapsed \in 0..1 :
                   ~ENABLED (/\ CheckAnswerInsert(call, TRUE, elapsed)
                             /\ ~(/\ resp'.histories = call.histories
                                  /\ NewRow.id \notin HistoryIds(resp'.histories))))

\* a call judged incorrect returns the one earlier wrong answer of its
\* sentence, while the store holds as well the row of the call and a row
\* that is correct or of the other sentence
C8_Witness ==
    /\ ReturnedVerdict
    /\ ~resp.is_correct
    /\ Len(resp.histories) = 1
    /\ Len(answer_histories) = 3
    /\ ~answer_histories[3].is_correct
    /\ answer_histories[3].id \notin HistoryIds(resp.histories)
    /\ \E i \in 1..2 :
          /\ answer_histories[i].sentence_id = answer_histories[3].sentence_id
          /\ ~answer_histories[i].is_correct
          /\ answer_histories[i].id \in HistoryIds(resp.histories)
    /\ \E i \in 1..2 :
          answer_histories[i].is_correct
              \/ answer_histories[i].sentence_id # answer_histories[3].sentence_id

----------------------------------------------------------------------------
(* C9 *)

\* the creation times of a histories list do not increase
Descending(histories) ==
    \A i, j \in 1..Len(histories) :
        i < j => histories[i].created_at >= histories[j].created_at

\* C9: the histories list built by the lookup of every call, and the list
\* of every response, is ordered by creation time descending.
C9_HistoriesDescending ==
    /\ Descending(resp.histories)
    /\ \A call \in BagToSet(inflight) : Descending(call.histories)

\* a response lists two wrong answers of different seconds, the later first
C9_Witness ==
    /\ ReturnedVerdict
    /\ Len(resp.histories) = 2
    /\ resp.histories[1].created_at > resp.histories[2].created_at

----------------------------------------------------------------------------
(* C10 *)

\* the decodable POSTs whose sentence_id references no sentence
UnknownSentenceRequests == PostRequests \ KnownSentenceRequests

\* C10 as stated: a call whose sentence_id references no sentence answers
\* 404 and leaves the store unchanged.
C10_UnknownSentenceIs404 ==
    [][\A r \in UnknownSentenceRequests, queryOK \in BOOLEAN :
          CheckAnswerLookup(r, queryOK, TRUE) =>
              resp'.status = StatusNotFound /\ StoreUnchanged]_vars

\* C10 amended: a call whose sentence_id references no sentence leaves the
\* store unchanged; it answers 404 when its lookup query returns no error
\* and 500 when it returns one.
C10_UnknownSentenceIs404UnlessQueryFails ==
    AfterPreflight =>
        \A r \in UnknownSentenceRequests :
            /\ ~ENABLED (/\ CheckAnswerLookup(r, TRUE, TRUE)
                         /\ ~(/\ resp'.status = StatusNotFound
                              /\ resp'.message = "Sentence not found"
                              /\ StoreUnchanged))
            /\ ~ENABLED (/\ CheckAnswerLookup(r, FALSE, TRUE)
                         /\ ~(/\ resp'.status = StatusInternalServerError
                              /\ StoreUnchanged))

\* 404 "Sentence not found" is answered by a server that has recorded
\* answers and has calls between their lookup and their insert
C10_Witness ==
    /\ resp.status = StatusNotFound
    /\ resp.message = "Sentence not found"
    /\ answer_histories # <<>>
    /\ inflight # EmptyBag

----------------------------------------------------------------------------
(* C11 *)

\* the response of this step is 200 with the verdict, the correct answer and
\* the histories list that call computed at its lookup
AnswersAsComputed(call) ==
    /\ resp'.status = StatusOK
    /\ resp'.message = "answer"
    /\ resp'.is_correct = call.isCorrect
    /\ resp'.correct_answer = call.correctAnswer
    /\ resp'.histories = call.histories

\* C11: a call whose insert fails answers 200 with the is_correct,
\* correct_answer and histories that it answers when its insert succeeds,
\* and leaves the sentences and the history rows unchanged.
C11_FailedInsertStillAnswers ==
    AfterPreflight =>
        \A call \in BagToSet(inflight) :
            /\ ~ENABLED (/\ CheckAnswerInsert(call, FALSE, 0)
                         /\ ~(/\ AnswersAsComputed(call)
                              /\ UNCHANGED <<sentences, answer_histories>>))
            /\ \A elapsed \in 0..1 :
                  ~ENABLED (/\ CheckAnswerInsert(call, TRUE, elapsed)
                            /\ ~AnswersAsComputed(call))

\* a call that read one wrong answer at its lookup has answered with it and
\* with an incorrect verdict, and the table still holds that one row only
C11_Witness ==
    /\ ReturnedVerdict
    /\ ~resp.is_correct
    /\ Len(resp.histories) = 1
    /\ Len(answer_histories) = 1
    /\ inflight = EmptyBag

----------------------------------------------------------------------------
(* C12 *)

\* the decodable POSTs to /api/sentence/report
ReportPosts ==
    {r \in ReportRequests(SentenceIDs) : r.method = "POST" /\ r.bodyOK}

\* this step changed nothing of the content of the sentences but the
\* is_reported flag of sentence sid, which is true after it
ReportsOnly(sid) ==
    /\ Len(sentences') = Len(sentences)
    /\ \A n \in 1..Len(sentences) :
          /\ sentences'[n].id = sentences[n].id
          /\ sentences'[n].japanese = sentences[n].japanese
          /\ sentences'[n].english = sentences[n].english
          /\ sentences'[n].page = sentences[n].page
          /\ sentences'[n].created_at = sentences[n].created_at
          /\ sentences'[n].is_reported
                = (sentences[n].is_reported \/ sentences[n].id = sid)

\* no sentence has id sid, or that sentence is reported already
UnknownOrReported(sid) ==
    \A n \in 1..Len(sentences) :
        sentences[n].id = sid => sentences[n].is_reported

\* C12 as stated: a report answers 204 for every id.
C12_ReportAlwaysSucceeds ==
    \A r \in ReportPosts, execOK \in BOOLEAN :
        ~ENABLED (/\ ReportSentence(r, execOK)
                  /\ resp'.status # StatusNoContent)

\* C12 amended: a report whose update succeeds answers 204 for every id and
\* leaves the flag of that id true and the content of every sentence and
\* every history row as it was; it changes nothing at all when the id is
\* unknown or the sentence is reported already, so a second report of an id
\* gives the state of the first.  A report whose update fails answers 500
\* and changes nothing.
C12_ReportSucceedsUnlessUpdateFails ==
    AfterPreflight =>
        \A r \in ReportPosts :
            /\ ~ENABLED (/\ ReportSentence(r, TRUE)
                         /\ ~(/\ resp'.status = StatusNoContent
                              /\ ReportsOnly(r.sentence_id)
                              /\ UNCHANGED <<answer_histories, inflight>>
                              /\ UnknownOrReported(r.sentence_id)
                                    => UNCHANGED sentences))
            /\ ~ENABLED (/\ ReportSentence(r, FALSE)
                         /\ ~(/\ resp'.status = StatusInternalServerError
                              /\ StoreUnchanged))

\* 204 is answered while sentence 1 is reported, sentence 2 is not, and
\* answers are recorded
C12_Witness ==
    /\ resp.status = StatusNoContent
    /\ sentences[1].is_reported
    /\ ~sentences[2].is_reported
    /\ answer_histories # <<>>

----------------------------------------------------------------------------
(* C13 *)

\* this step takes back the report of a sentence, or removes the sentence
UnReports ==
    \E n \in 1..Len(sentences) :
        /\ sentences[n].is_reported
        /\ ~(/\ n <= Len(sentences')
             /\ sentences'[n].id = sentences[n].id
             /\ sentences'[n].is_reported)

\* C13: no step of any handler takes back the report of a sentence, and in
\* every state no request for a random sentence, whatever its method and
\* the outcome of its query, returns a sentence that is reported, whatever
\* its score.
C13_ReportIsPermanent ==
    /\ [][~UnReports]_vars
    /\ [](AfterPreflight =>
            \A n \in 1..Len(sentences) :
               sentences[n].is_reported =>
                  \A r \in RandomRequests, queryOK \in BOOLEAN, rowsOK \in BOOLEAN :
                      ~ENABLED (/\ GetRandomSentence(r, queryOK, rowsOK)
                                /\ resp'.message = "sentence"
                                /\ resp'.sentence.id = sentences[n].id))

\* a sentence was returned while the other sentence is reported and has a
\* negative score: wrong answers to it are recorded
C13_Witness ==
    /\ ReturnedSentence
    /\ \E n \in 1..Len(sentences) :
          /\ sentences[n].is_reported
          /\ Score(sentences[n].id) < 0
          /\ resp.sentence.id # sentences[n].id

----------------------------------------------------------------------------
(* C14 *)

\* C14: in every state, a request for a random sentence, whatever its
\* method and the outcome of its query, leaves the sentences, the history
\* rows and the calls in progress as they are.
C14_RandomIsReadOnly ==
    AfterPreflight =>
        \A r \in RandomRequests, queryOK \in BOOLEAN, rowsOK \in BOOLEAN :
            ~ENABLED (GetRandomSentence(r, queryOK, rowsOK) /\ ~StoreUnchanged)

\* a sentence with one correct and one wrong answer was returned from a
\* store of three rows in which the other sentence is reported
C14_Witness ==
    /\ ReturnedSentence
    /\ resp.sentence.correct_count = 1
    /\ resp.sentence.incorrect_count = 1
    /\ Len(answer_histories) = 3
    /\ \E n \in 1..Len(sentences) : sentences[n].is_reported

----------------------------------------------------------------------------
(* C15 *)

\* every row of answer_histories is, after this step, where and what it was
KeepsRows ==
    /\ Len(answer_histories') >= Len(answer_histories)
    /\ SubSeq(answer_histories', 1, Len(answer_histories)) = answer_histories

\* this step is the insert of a call in progress
IsInsertOfCall ==
    \E call \in BagToSet(inflight) : inflight' = inflight (-) SetToBag({call})

\* this step keeps the rows there are, and if it changes the table it is
\* the insert of a checkAnswer call and adds one row
AppendOnly ==
    /\ KeepsRows
    /\ answer_histories' # answer_histories => IsInsertOfCall /\ AddsOneRow

\* C15 as stated: the table is append-only, only checkAnswer creates rows,
\* and a report changes nothing but the is_reported flag of its sentence.
C15_AppendOnlyAndReportSetsFlagOnly ==
    /\ [][AppendOnly]_vars
    /\ [](\A r \in ReportRequests(SentenceIDs), execOK \in BOOLEAN :
            ~ENABLED (/\ ReportSentence(r, execOK)
                      /\ ~(/\ UNCHANGED answer_histories
                           /\ Len(sentences') = Len(sentences)
                           /\ \A n \in 1..Len(sentences) :
                                 \/ sentences'[n] = sentences[n]
                                 \/ /\ sentences[n].id = r.sentence_id
                                    /\ sentences'[n] =
                                          [sentences[n] EXCEPT
                                              !.is_reported = TRUE])))

\* C15 amended: the table is append-only, only checkAnswer creates rows,
\* and a report changes nothing but the is_reported flag of its sentence
\* and, when it sets the flag, the updated_at of that sentence.
C15_AppendOnlyAndReportSetsFlagAndTimestamp ==
    /\ [][AppendOnly]_vars
    /\ [](AfterPreflight =>
            \A r \in ReportRequests(SentenceIDs), execOK \in BOOLEAN :
               ~ENABLED (/\ ReportSentence(r, execOK)
                         /\ ~(/\ UNCHANGED answer_histories
                              /\ Len(sentences') = Len(sentences)
                              /\ \A n \in 1..Len(sentences) :
                                    \/ sentences'[n] = sentences[n]
                                    \/ /\ sentences[n].id = r.sentence_id
                                       /\ ~sentences[n].is_reported
                                       /\ sentences'[n] =
                                             [sentences[n] EXCEPT
                                                 !.is_reported = TRUE,
                                                 !.updated_at =
                                                    sentences'[n].updated_at])))

\* a sentence with two history rows is reported, its updated_at is later
\* than its created_at, and the report was the latest step
C15_Witness ==
    /\ resp.status = StatusNoContent
    /\ inflight = EmptyBag
    /\ \E n \in 1..Len(sentences) :
          /\ sentences[n].is_reported
          /\ sentences[n].updated_at > sentences[n].created_at
          /\ CountRows(sentences[n].id, TRUE)
                + CountRows(sentences[n].id, FALSE) = 2

----------------------------------------------------------------------------
(* C16 *)

\* the ids of the sentences table
SentenceIdsOf(table) == {table[n].id : n \in 1..Len(table)}

\* C16: every history row references a sentence of the table; a call that
\* goes on to its insert has found its sentence; and the table has the
\* sentences it started with, so no step has removed one.
C16_ReferentialIntegrity ==
    /\ \A i \in 1..Len(answer_histories) :
          answer_histories[i].sentence_id \in SentenceIdsOf(sentences)
    /\ \A call \in BagToSet(inflight) :
          /\ call.req.sentence_id \in SentenceIdsOf(sentences)
          /\ call.correctAnswer = EnglishOf(call.req.sentence_id)
    /\ SentenceIdsOf(SeedSentences) \subseteq SentenceIdsOf(sentences)

\* both sentences have history rows, one of them is reported, a request for
\* an unknown sentence was just answered 404
C16_Witness ==
    /\ resp.status = StatusNotFound
    /\ resp.message = "Sentence not found"
    /\ \A sid \in SentenceIdsOf(sentences) :
          \E i \in 1..Len(answer_histories) :
             answer_histories[i].sentence_id = sid
    /\ \E n \in 1..Len(sentences) : sentences[n].is_reported

----------------------------------------------------------------------------
(* C17 *)

\* the counts in the body of this step's response are the numbers of rows
\* the served sentence has in the table the query read
CountsAreRowCounts ==
    /\ resp'.sentence.correct_count = CountRows(resp'.sentence.id, TRUE)
    /\ resp'.sentence.incorrect_count = CountRows(resp'.sentence.id, FALSE)

\* C17: whenever getRandomSentence serves a sentence, the correct_count and
\* incorrect_count it returns are the numbers of history rows of that
\* sentence with is_correct true and false in the table at that moment, so
\* 0 and 0 without history, and with every row inserted before.
C17_CountsAreRowCounts ==
    /\ AfterPreflight =>
          \A rowsOK \in BOOLEAN :
             ~ENABLED (/\ GetRandomSentence(GetRequest, TRUE, rowsOK)
                       /\ resp'.status = StatusOK
                       /\ ~CountsAreRowCounts)
    /\ ReturnedSentence =>
          /\ resp.sentence.correct_count = CountRows(resp.sentence.id, TRUE)
          /\ resp.sentence.incorrect_count = CountRows(resp.sentence.id, FALSE)

\* a sentence is served with one right and one wrong answer counted while
\* the other sentence has a row too
C17_Witness ==
    /\ ReturnedSentence
    /\ resp.sentence.correct_count = 1
    /\ resp.sentence.incorrect_count = 1
    /\ Len(answer_histories) = 3
    /\ inflight = EmptyBag

----------------------------------------------------------------------------
(* C18 *)

\* the sentence with id sid is in the table and reported
Reported(sid) ==
    \E n \in 1..Len(sentences) : sentences[n].id = sid /\ sentences[n].is_reported

\* the decodable POSTs to /api/answer/check for a reported sentence
ReportedSentenceRequests ==
    {r \in KnownSentenceRequests : Reported(r.sentence_id)}

\* the calls between lookup and insert whose sentence is reported by now
ReportedSentenceCalls ==
    {call \in BagToSet(inflight) : Reported(call.req.sentence_id)}

\* this step added the row of call, and the sentences are as they were
InsertsRowOf(call) ==
    /\ AddsOneRow
    /\ NewRow.sentence_id = call.req.sentence_id
    /\ NewRow.is_correct = call.isCorrect
    /\ UNCHANGED sentences

\* reports and the answers to reported sentences leave the data model sound:
\* rows reference sentences, calls carry the verdict of the comparison, and
\* no reported sentence can be served
SoundWithReports ==
    /\ \A i \in 1..Len(answer_histories) :
          answer_histories[i].sentence_id \in SentenceIdsOf(sentences)
    /\ \A call \in ReportedSentenceCalls :
          call.isCorrect = EqualTrimmedFolded(call.req.user_answer,
                                              EnglishOf(call.req.sentence_id))
    /\ AfterPreflight =>
          \A rowsOK \in BOOLEAN :
             ~ENABLED (/\ GetRandomSentence(GetRequest, TRUE, rowsOK)
                       /\ resp'.status = StatusOK
                       /\ Reported(resp'.sentence.id))

\* C18 as stated: a checkAnswer for a sentence that has been reported goes
\* on to its insert, answers 200 with the verdict of the comparison and adds
\* its row, the sentence stays reported and out of the pool, and the rows
\* reference sentences.
C18_ReportedSentenceIsAnsweredAndRecorded ==
    /\ SoundWithReports
    /\ \A r \in ReportedSentenceRequests, queryOK \in BOOLEAN :
          ~ENABLED (/\ CheckAnswerLookup(r, queryOK, TRUE)
                    /\ ~(/\ BagCardinality(inflight')
                               = BagCardinality(inflight) + 1
                         /\ UNCHANGED <<sentences, answer_histories>>))
    /\ \A call \in ReportedSentenceCalls, execOK \in BOOLEAN :
          ~ENABLED (/\ CheckAnswerInsert(call, execOK, 0)
                    /\ ~(AnswersAsComputed(call) /\ InsertsRowOf(call)))

\* C18 amended: a checkAnswer for a sentence that has been reported is
\* handled as for one that is not: when the result of its lookup query is
\* read to its end it goes on to its insert and answers 200 with the verdict
\* of the comparison, and its insert, when it succeeds, adds its row; a
\* lookup query that returns an error answers 500 and a failed insert adds no
\* row.  The sentence stays reported and out of the pool, and the rows
\* reference sentences.
C18_ReportedSentenceIsCheckedAsAnyOther ==
    /\ SoundWithReports
    /\ AfterPreflight =>
          /\ \A r \in ReportedSentenceRequests :
                /\ ~ENABLED (/\ CheckAnswerLookup(r, TRUE, TRUE)
                             /\ ~(/\ BagCardinality(inflight')
                                        = BagCardinality(inflight) + 1
                                  /\ UNCHANGED <<sentences, answer_histories>>))
                /\ ~ENABLED (/\ CheckAnswerLookup(r, FALSE, TRUE)
                             /\ ~(/\ resp'.status = StatusInternalServerError
                                  /\ StoreUnchanged))
          /\ \A call \in ReportedSentenceCalls :
                /\ \A elapsed \in 0..1 :
                      ~ENABLED (/\ CheckAnswerInsert(call, TRUE, elapsed)
                                /\ ~(/\ AnswersAsComputed(call)
                                     /\ InsertsRowOf(call)))
                /\ ~ENABLED (/\ CheckAnswerInsert(call, FALSE, 0)
                             /\ ~(/\ AnswersAsComputed(call)
                                  /\ UNCHANGED <<sentences, answer_histories>>))

\* a correct answer to a reported sentence was just answered and recorded,
\* and it is the only row of that sentence: the report came before the
\* insert of the first answer to the sentence
C18_Witness ==
    /\ ReturnedVerdict
    /\ resp.is_correct
    /\ answer_histories # <<>>
    /\ Reported(answer_histories[Len(answer_histories)].sentence_id)
    /\ answer_histories[Len(answer_histories)].is_correct
    /\ CountRows(answer_histories[Len(answer_histories)].sentence_id, TRUE) = 1
    /\ CountRows(answer_histories[Len(answer_histories)].sentence_id, FALSE) = 0

----------------------------------------------------------------------------
(* C19 *)

\* the methods of the requests the gate is checked with; PUT stands for the
\* verbs no handler names
GateMethods == Methods \cup {"PUT"}

\* requests to /api/answer/check that the gate stops: each method other than
\* POST with and without a decodable body, and POST without one
GatedCheckRequests ==
    {r \in [method : GateMethods, bodyOK : BOOLEAN,
            sentence_id : {1}, user_answer : {English1}] :
        r.method # "POST" \/ ~r.bodyOK}

\* requests to /api/sentence/report that the gate stops
GatedReportRequests ==
    {r \in [method : GateMethods, bodyOK : BOOLEAN, sentence_id : {1}] :
        r.method # "POST" \/ ~r.bodyOK}

\* requests to /api/sentence/random that the gate stops
GatedRandomRequests == {r \in [method : GateMethods] : r.method # "GET"}

\* the response this step wrote is the one of the gate for a request of
\* this method to an endpoint of this verb, and the store is as it was
StoppedByGate(method, verb) ==
    /\ StoreUnchanged
    /\ resp'.status =
          IF method = "OPTIONS" THEN StatusNoContent
          ELSE IF method # verb THEN StatusMethodNotAllowed
          ELSE StatusBadRequest
    /\ resp'.message =
          IF method = "OPTIONS" THEN ""
          ELSE IF method # verb THEN "Method not allowed"
          ELSE "Invalid request body"

\* C19: on each endpoint an OPTIONS request answers 204, any other request
\* of a wrong verb answers 405, and on check and report any other request
\* whose body does not decode answers 400, in this order; whatever the
\* store would answer, such a request leaves sentences, history rows and
\* calls in progress as they were.
C19_GateOrder ==
    AfterPreflight =>
        \A storeOK \in BOOLEAN, rowsOK \in BOOLEAN :
            /\ \A r \in GatedRandomRequests :
                  ~ENABLED (/\ GetRandomSentence(r, storeOK, rowsOK)
                            /\ ~StoppedByGate(r.method, "GET"))
            /\ \A r \in GatedCheckRequests :
                  ~ENABLED (/\ CheckAnswerLookup(r, storeOK, rowsOK)
                            /\ ~StoppedByGate(r.method, "POST"))
            /\ \A r \in GatedReportRequests :
                  ~ENABLED (/\ ReportSentence(r, storeOK)
                            /\ ~StoppedByGate(r.method, "POST"))

\* a request was answered 400 by a server that has history rows, a reported
\* sentence and a call in progress
C19_Witness ==
    /\ resp.status = StatusBadRequest
    /\ resp.message = "Invalid request body"
    /\ answer_histories # <<>>
    /\ inflight # EmptyBag
    /\ \E n \in 1..Len(sentences) : sentences[n].is_reported

----------------------------------------------------------------------------
(* C20 *)

\* this step answered 500 and wrote nothing
InternalError ==
    /\ resp'.status = StatusInternalServerError
    /\ resp'.message = "Internal server error"
    /\ StoreUnchanged

\* C20: a failure of the storage in the selection query, in the lookup
\* query or in the update of a report, be it an error of the statement or
\* of the reading of its rows, is answered 500 and leaves the store as it
\* was; a failed insert alone is answered 200.
C20_StorageFailureIsInternalError ==
    /\ ~ENABLED (GetRandomSentence(GetRequest, FALSE, TRUE) /\ ~InternalError)
    /\ ~ENABLED (GetRandomSentence(GetRequest, TRUE, FALSE) /\ ~InternalError)
    /\ \A r \in PostRequests :
          /\ ~ENABLED (CheckAnswerLookup(r, FALSE, TRUE) /\ ~InternalError)
          /\ ~ENABLED (CheckAnswerLookup(r, TRUE, FALSE) /\ ~InternalError)
    /\ \A r \in ReportPosts :
          ~ENABLED (ReportSentence(r, FALSE) /\ ~InternalError)
    /\ \A call \in BagToSet(inflight) :
          ~ENABLED (/\ CheckAnswerInsert(call, FALSE, 0)
                    /\ ~(/\ resp'.status = StatusOK
                         /\ UNCHANGED <<sentences, answer_histories>>))

\* what holds of C20: an error that db.Query, the rows.Scan of the selection
\* or db.Exec of the update returns is answered 500 and leaves the store as
\* it was, and a failed insert is answered 200.
C20_ReturnedErrorIsInternalError ==
    AfterPreflight =>
        /\ ~ENABLED (GetRandomSentence(GetRequest, FALSE, TRUE) /\ ~InternalError)
        /\ \A r \in PostRequests :
              ~ENABLED (CheckAnswerLookup(r, FALSE, TRUE) /\ ~InternalError)
        /\ \A r \in ReportPosts :
              ~ENABLED (ReportSentence(r, FALSE) /\ ~InternalError)
        /\ \A call \in BagToSet(inflight) :
              ~ENABLED (/\ CheckAnswerInsert(call, FALSE, 0)
                        /\ ~(/\ resp'.status = StatusOK
                             /\ UNCHANGED <<sentences, answer_histories>>))

\* 404 "No sentences found" is answered while a sentence is eligible: the
\* result of the selection query was cut short before its first row
C20_Witness ==
    /\ resp.status = StatusNotFound
    /\ resp.message = "No sentences found"
    /\ Eligible # {}

----------------------------------------------------------------------------
(* C21 *)

\* the decodable POSTs for a sentence of the table that has no wrong-answer
\* row: no row at all, or correct rows only
NoWrongRowRequests ==
    {r \in KnownSentenceRequests : PriorWrong(r.sentence_id) = {}}

\* this step is the lookup of a call that found its sentence and built a
\* histories list that is empty and not nil
FoundWithEmptyList ==
    /\ UNCHANGED <<sentences, answer_histories>>
    /\ \E call \in BagToSet(inflight') :
          /\ Dispatched(call)
          /\ call.correctAnswer = EnglishOf(call.req.sentence_id)
          /\ call.histories = <<>>
          /\ ~call.historiesNil

\* the response of this step is 200 with the histories list of call, written
\* as a JSON array
AnswersWithArray(call) ==
    /\ resp'.status = StatusOK
    /\ resp'.message = "answer"
    /\ resp'.histories = call.histories
    /\ resp'.histories_json = "array"

\* C21 as stated: a call for an existing sentence without a wrong-answer row
\* finds the sentence, so it is not answered 404, and answers 200 with
\* histories an empty array.
C21_NoWrongRowIs200WithEmptyList ==
    /\ \A r \in NoWrongRowRequests, queryOK \in BOOLEAN, rowsOK \in BOOLEAN :
          ~ENABLED (CheckAnswerLookup(r, queryOK, rowsOK) /\ ~FoundWithEmptyList)
    /\ \A call \in BagToSet(inflight), execOK \in BOOLEAN :
          ~ENABLED (CheckAnswerInsert(call, execOK, 0) /\ ~AnswersWithArray(call))

\* C21 amended: a call for an existing sentence without a wrong-answer row
\* whose lookup result is read to its end finds the sentence by the
\* placeholder row and builds an empty list; every call that found its
\* sentence answers 200 with its list as an array, never null, whether or
\* not its insert succeeds.  A lookup query that returns an error answers
\* 500, and a lookup result that breaks off before its row answers 404.
C21_NoWrongRowIsFoundWithEmptyList ==
    /\ \A call \in BagToSet(inflight) : ~call.historiesNil
    /\ ReturnedVerdict => resp.histories_json = "array"
    /\ AfterPreflight =>
          /\ \A r \in NoWrongRowRequests :
                /\ ~ENABLED (/\ CheckAnswerLookup(r, TRUE, TRUE)
                             /\ ~FoundWithEmptyList)
                /\ ~ENABLED (/\ CheckAnswerLookup(r, FALSE, TRUE)
                             /\ ~InternalError)
                /\ ~ENABLED (/\ CheckAnswerLookup(r, TRUE, FALSE)
                             /\ ~FoundWithEmptyList
                             /\ ~(/\ resp'.status = StatusNotFound
                                  /\ resp'.message = "Sentence not found"
                                  /\ StoreUnchanged))
          /\ \A call \in BagToSet(inflight), execOK \in BOOLEAN :
                ~ENABLED (/\ CheckAnswerInsert(call, execOK, 0)
                          /\ ~AnswersWithArray(call))

\* a second correct answer to a sentence was answered with an empty array,
\* while the table holds a wrong answer to the other sentence
C21_Witness ==
    /\ ReturnedVerdict
    /\ resp.is_correct
    /\ resp.histories = <<>>
    /\ resp.histories_json = "array"
    /\ Len(answer_histories) = 3
    /\ CountRows(answer_histories[3].sentence_id, TRUE) = 2
    /\ CountRows(answer_histories[3].sentence_id, FALSE) = 0

----------------------------------------------------------------------------
(* C22 *)

\* the sentence with id sid is in the table and is not eligible: it is
\* reported or its score has reached 2
Retired(sid) ==
    /\ sid \in SentenceIdsOf(sentences)
    /\ sid \notin Eligible

\* the decodable POSTs to /api/answer/check for a sentence that is retired
RetiredSentenceRequests ==
    {r \in KnownSentenceRequests : Retired(r.sentence_id)}

\* the calls between lookup and insert whose sentence is retired by now
RetiredSentenceCalls ==
    {call \in BagToSet(inflight) : Retired(call.req.sentence_id)}

\* this step is the lookup of a call that carries the verdict of the
\* comparison of r's answer
DispatchedWithVerdict(r) ==
    /\ UNCHANGED <<sentences, answer_histories>>
    /\ \E call \in BagToSet(inflight') :
          /\ Dispatched(call)
          /\ call.req.sentence_id = r.sentence_id
          /\ call.isCorrect = EqualTrimmedFolded(r.user_answer,
                                                 EnglishOf(r.sentence_id))

\* this step moved the score of sentence sid by one, up for a correct and
\* down for an incorrect verdict
MovesScore(sid, isCorrect) ==
    Score(sid)' = Score(sid) + (IF isCorrect THEN 1 ELSE -1)

\* a sentence that is not reported and whose score is below 2 although it
\* has two correct answers or more can be served
ServedAgainBelowThreshold ==
    \A n \in 1..Len(sentences) :
        (/\ ~sentences[n].is_reported
         /\ CountRows(sentences[n].id, TRUE) >= 2
         /\ Score(sentences[n].id) < 2) =>
            ENABLED (/\ GetRandomSentence(GetRequest, TRUE, TRUE)
                     /\ resp'.status = StatusOK
                     /\ resp'.sentence.id = sentences[n].id)

\* C22 as stated: a call for a sentence that is reported or of score 2 or
\* more goes on to its insert, answers 200 with the verdict and adds its
\* row; a correct answer takes the score above 2, and a sentence that is
\* not reported is served again when its score is below 2.
C22_RetiredSentenceIsAnsweredAndRecorded ==
    /\ \A r \in RetiredSentenceRequests, queryOK \in BOOLEAN :
          ~ENABLED (CheckAnswerLookup(r, queryOK, TRUE) /\ ~DispatchedWithVerdict(r))
    /\ \A call \in RetiredSentenceCalls, execOK \in BOOLEAN :
          ~ENABLED (/\ CheckAnswerInsert(call, execOK, 0)
                    /\ ~(/\ AnswersAsComputed(call)
                         /\ InsertsRowOf(call)
                         /\ MovesScore(call.req.sentence_id, call.isCorrect)))
    /\ ServedAgainBelowThreshold

\* C22 amended: a call for a sentence that is reported or of score 2 or more
\* is handled as for an eligible one: when its lookup result is read to its
\* end it goes on to its insert and answers 200 with the verdict of the
\* comparison, and its insert, when it succeeds, adds its row and moves the
\* score by one, above 2 for a correct answer to a sentence of score 2; a
\* lookup query that returns an error answers 500 and a failed insert adds
\* no row.  A sentence that is not reported is eligible after every insert
\* that leaves its score below 2, and is then served again.
C22_RetiredSentenceIsCheckedAsAnyOther ==
    [](AfterPreflight =>
           /\ \A r \in RetiredSentenceRequests :
                 /\ ~ENABLED (/\ CheckAnswerLookup(r, TRUE, TRUE)
                              /\ ~DispatchedWithVerdict(r))
                 /\ ~ENABLED (/\ CheckAnswerLookup(r, FALSE, TRUE)
                              /\ ~InternalError)
           /\ \A call \in RetiredSentenceCalls :
                 /\ \A elapsed \in 0..1 :
                       ~ENABLED (/\ CheckAnswerInsert(call, TRUE, elapsed)
                                 /\ ~(/\ AnswersAsComputed(call)
                                      /\ InsertsRowOf(call)
                                      /\ MovesScore(call.req.sentence_id,
                                                    call.isCorrect)
                                      /\ (/\ ~Reported(call.req.sentence_id)
                                          /\ Score(call.req.sentence_id)' < 2)
                                            => call.req.sentence_id \in Eligible'))
                 /\ ~ENABLED (/\ CheckAnswerInsert(call, FALSE, 0)
                              /\ ~(/\ AnswersAsComputed(call)
                                   /\ UNCHANGED <<sentences, answer_histories>>))
                 /\ (call.isCorrect /\ Score(call.req.sentence_id) >= 2) =>
                       ENABLED (/\ CheckAnswerInsert(call, TRUE, 0)
                                /\ Score(call.req.sentence_id)' > 2)
           /\ ServedAgainBelowThreshold)

\* a sentence that two correct answers had retired is served again after a
\* wrong answer to it was recorded
C22_Witness ==
    /\ ReturnedSentence
    /\ resp.sentence.correct_count = 2
    /\ resp.sentence.incorrect_count = 1
    /\ Len(answer_histories) = 3
    /\ \A i \in 1..3 : answer_histories[i].sentence_id = resp.sentence.id
    /\ answer_histories[1].is_correct
    /\ answer_histories[2].is_correct
    /\ ~answer_histories[3].is_correct

----------------------------------------------------------------------------
(* C23 *)

\* the number of calls for sentence sid between their lookup and their insert
InFlightFor(sid) ==
    BagCardinality([call \in {c \in BagToSet(inflight) :
                                 c.req.sentence_id = sid} |-> inflight[call]])

\* the calls that run concurrently with another call for the same sentence:
\* both have done their lookup and neither has done its insert
ConcurrentCalls ==
    {call \in BagToSet(inflight) : InFlightFor(call.req.sentence_id) >= 2}

\* this step added the row of call and no other, and took nothing from the
\* other calls in progress
InsertsOwnRowOnly(call) ==
    /\ AddsOneRow
    /\ NewRow.id = Len(answer_histories) + 1
    /\ NewRow.sentence_id = call.req.sentence_id
    /\ NewRow.is_correct = call.isCorrect
    /\ NewRow.incorrect_answer = call.incorrectAnswer
    /\ inflight' = inflight (-) SetToBag({call})
    /\ UNCHANGED sentences

\* the response of this step is 200 with the list that call read at its
\* lookup, which has no row added since the lookup: every row of it was in
\* the table before this step, and not as the last row if this step added
\* one
ReturnsListOfLookup(call) ==
    /\ resp'.status = StatusOK
    /\ resp'.message = "answer"
    /\ resp'.histories = call.histories
    /\ HistoryIds(resp'.histories) \subseteq 1..Len(answer_histories)

\* the ids of the rows are their positions: no two rows share an id
RowIdsAreDistinct ==
    \A i \in 1..Len(answer_histories) : answer_histories[i].id = i

\* C23 as stated: of two concurrent calls for a sentence each adds its own
\* row when it completes and removes none, so both rows are there after
\* both; each returns the list of its lookup, without its own row.
C23_ConcurrentCallsEachAddOneRow ==
    /\ RowIdsAreDistinct
    /\ \A call \in ConcurrentCalls, execOK \in BOOLEAN :
          ~ENABLED (/\ CheckAnswerInsert(call, execOK, 0)
                    /\ ~(InsertsOwnRowOnly(call) /\ ReturnsListOfLookup(call)))

\* C23 amended: of two concurrent calls for a sentence each insert that
\* succeeds adds the row of its call, removes no row and leaves the other
\* call in progress, so after both the table holds one new row per call
\* whose insert succeeded; an insert that fails adds no row.  Each call
\* returns the list of its lookup, which never has its own row and has no
\* row committed after the lookup.
C23_NoSuccessfulInsertIsLost ==
    [](/\ RowIdsAreDistinct
       /\ AfterPreflight =>
             \A call \in ConcurrentCalls :
                /\ \A elapsed \in 0..1 :
                      ~ENABLED (/\ CheckAnswerInsert(call, TRUE, elapsed)
                                /\ ~(/\ InsertsOwnRowOnly(call)
                                     /\ ReturnsListOfLookup(call)))
                /\ ~ENABLED (/\ CheckAnswerInsert(call, FALSE, 0)
                             /\ ~(/\ UNCHANGED <<sentences, answer_histories>>
                                  /\ inflight' = inflight (-) SetToBag({call})
                                  /\ ReturnsListOfLookup(call))))

\* two wrong answers to one sentence are recorded and the call that
\* inserted second has answered with an empty list: its lookup ran before
\* the insert of the first, so both returned the list of the state before
C23_Witness ==
    /\ ReturnedVerdict
    /\ ~resp.is_correct
    /\ resp.histories = <<>>
    /\ inflight = EmptyBag
    /\ Len(answer_histories) = 2
    /\ answer_histories[1].sentence_id = answer_histories[2].sentence_id
    /\ ~answer_histories[1].is_correct
    /\ ~answer_histories[2].is_correct

----------------------------------------------------------------------------
(* One client that practises until nothing is left: it asks for a random   *)
(* sentence and answers the sentence it gets with the english text it was  *)
(* sent, again and again.  No other client acts.  It starts from any flags *)
(* of the sentences and any history of at most MaxHistory rows.  A query   *)
(* may return an error, and then the client asks again; every statement    *)
(* succeeds in the end, and every insert succeeds.                         *)

\* row i of a history: an answer to sentence sid, correct or wrong
HistoryRow(i, sid, isCorrect) ==
    [id |-> i, sentence_id |-> sid, is_correct |-> isCorrect,
     incorrect_answer |->
         IF isCorrect THEN <<>>
         ELSE IF sid = 1 THEN <<"n","o",".">> ELSE <<"h","I","."," ">>,
     created_at |-> i]

\* the histories of at most n rows
Histories(n) ==
    UNION {{[i \in 1..k |-> HistoryRow(i, c[i][1], c[i][2])] :
               c \in [1..k -> (1..Len(SeedSentences)) \X BOOLEAN]} :
           k \in 0..n}

RetireInit ==
    /\ \E flags \in [1..Len(SeedSentences) -> BOOLEAN] :
          sentences =
              [n \in 1..Len(SeedSentences) |->
                  [SeedSentences[n] EXCEPT
                      !.is_reported = flags[n],
                      !.updated_at = IF flags[n] THEN 1 ELSE 0]]
    /\ answer_histories \in Histories(MaxHistory)
    /\ inflight = EmptyBag
    /\ resp = NoResponse

\* the client asks for a sentence when it has none to answer
ClientGetRandomSentence(queryOK) ==
    /\ inflight = EmptyBag
    /\ ~ReturnedSentence
    /\ GetRandomSentence(GetRequest, queryOK, TRUE)

\* the client answers the sentence it was sent with the text it was sent
ClientCheckAnswer(queryOK) ==
    /\ inflight = EmptyBag
    /\ ReturnedSentence
    /\ CheckAnswerLookup([method |-> "POST", bodyOK |-> TRUE,
                          sentence_id |-> resp.sentence.id,
                          user_answer |-> resp.sentence.english],
                         queryOK, TRUE)

\* the insert of the client's call, a second after the latest row
ClientInsert ==
    \E call \in BagToSet(inflight) : CheckAnswerInsert(call, TRUE, 1)

RetireNext ==
    \/ \E queryOK \in BOOLEAN : ClientGetRandomSentence(queryOK)
    \/ \E queryOK \in BOOLEAN : ClientCheckAnswer(queryOK)
    \/ ClientInsert

\* the server answers every request (each request runs on a goroutine of
\* its own and waits for nothing but the database), and a query that the
\* client sends again and again does not return an error every time
RetireSpec ==
    /\ RetireInit
    /\ [][RetireNext]_vars
    /\ SF_vars(ClientGetRandomSentence(TRUE))
    /\ SF_vars(ClientCheckAnswer(TRUE))
    /\ WF_vars(ClientInsert)

----------------------------------------------------------------------------
(* C24 *)

\* a step that changes the history is the insert of a correct answer: it
\* adds one row, raises the score of the answered sentence by one and leaves
\* the score of every other sentence as it was
RoundRaisesScore ==
    answer_histories' # answer_histories =>
        \E call \in BagToSet(inflight) :
            /\ call.isCorrect
            /\ AddsOneRow
            /\ NewRow.sentence_id = call.req.sentence_id
            /\ \A sid \in SentenceIdsOf(sentences) :
                  Score(sid)' = Score(sid)
                                   + (IF sid = call.req.sentence_id THEN 1 ELSE 0)

\* no sentence whose score has reached 2 can be served
RetiredByScore ==
    \A n \in 1..Len(sentences) :
        Score(sentences[n].id) >= 2 =>
            ~ENABLED (/\ GetRandomSentence(GetRequest, TRUE, TRUE)
                      /\ resp'.status = StatusOK
                      /\ resp'.sentence.id = sentences[n].id)

\* C24: when one client asks for a random sentence and answers each sentence
\* it gets correctly, again and again, each round raises the score of the
\* served sentence by one, a sentence of score 2 is served no more, and in
\* the end a request for a random sentence is answered 404 with no sentence
\* eligible.
C24_PracticeRetiresEverySentence ==
    /\ [][RoundRaisesScore]_vars
    /\ []RetiredByScore
    /\ <>(/\ resp.status = StatusNotFound
          /\ resp.message = "No sentences found"
          /\ Eligible = {})

\* 404 is answered after rounds of practice: a sentence that is not reported
\* and had wrong answers has reached score 2 by rows added to the history
C24_Witness ==
    /\ resp.status = StatusNotFound
    /\ resp.message = "No sentences found"
    /\ Len(answer_histories) > MaxHistory
    /\ \E n \in 1..Len(sentences) :
          /\ ~sentences[n].is_reported
          /\ CountRows(sentences[n].id, FALSE) >= 1
          /\ Score(sentences[n].id) = 2

----------------------------------------------------------------------------
(* C25 *)

\* this step left the counts of every sentence but sid as they were
OtherCountsUnchanged(sid) ==
    \A other \in SentenceIdsOf(sentences) \ {sid} : \A flag \in BOOLEAN :
        CountRows(other, flag)' = CountRows(other, flag)

\* this step moved the score of the sentence of call by one, in the
\* direction of the verdict it answered, and changed no other count and
\* nothing of the sentences
MovesOwnScoreOnly(call) ==
    /\ resp'.is_correct = call.isCorrect
    /\ MovesScore(call.req.sentence_id, call.isCorrect)
    /\ OtherCountsUnchanged(call.req.sentence_id)
    /\ UNCHANGED sentences

\* this step left every row, and so every count, and the sentences as they
\* were
MovesNoScore == UNCHANGED <<sentences, answer_histories>>

\* C25 as stated: a call that is answered 200 has moved the score of its
\* sentence by one, up for a correct and down for an incorrect verdict, and
\* has changed no other count, no flag and no text.
C25_AnsweredCallMovesScoreByOne ==
    \A call \in BagToSet(inflight), execOK \in BOOLEAN :
        ~ENABLED (/\ CheckAnswerInsert(call, execOK, 0)
                  /\ resp'.status = StatusOK
                  /\ ~MovesOwnScoreOnly(call))

\* C25 amended: a call whose insert succeeds moves the score of its sentence
\* by one, up for a correct and down for an incorrect verdict, and changes
\* no other count, no flag and no text; a call whose insert fails is
\* answered 200 as well and changes no count at all; the lookup of a call
\* writes nothing.
C25_RecordedCallMovesScoreByOne ==
    [](AfterPreflight =>
        /\ \A call \in BagToSet(inflight) :
              /\ \A elapsed \in 0..1 :
                    ~ENABLED (/\ CheckAnswerInsert(call, TRUE, elapsed)
                              /\ ~(/\ resp'.status = StatusOK
                                   /\ MovesOwnScoreOnly(call)))
              /\ ~ENABLED (/\ CheckAnswerInsert(call, FALSE, 0)
                           /\ ~(resp'.status = StatusOK /\ MovesNoScore))
        /\ \A r \in PostRequests, queryOK \in BOOLEAN, rowsOK \in BOOLEAN :
              ~ENABLED (CheckAnswerLookup(r, queryOK, rowsOK) /\ ~MovesNoScore))

\* a wrong answer took the score of a sentence from 1 to 0 while the other
\* sentence is reported and has a row of its own
C25_Witness ==
    /\ ReturnedVerdict
    /\ ~resp.is_correct
    /\ Len(answer_histories) = 3
    /\ ~answer_histories[3].is_correct
    /\ ~Reported(answer_histories[3].sentence_id)
    /\ CountRows(answer_histories[3].sentence_id, TRUE) = 1
    /\ CountRows(answer_histories[3].sentence_id, FALSE) = 1
    /\ \E i \in 1..2 :
          /\ answer_histories[i].sentence_id # answer_histories[3].sentence_id
          /\ Reported(answer_histories[i].sentence_id)

----------------------------------------------------------------------------
(* C26 *)

\* the JSON objects without a sentence_id member, with and without an
\* answer; {} is one of them
BodiesWithoutSentenceId ==
    {ObjectBody(Omitted, FALSE, <<>>)}
    \cup {ObjectBody(Omitted, TRUE, a) : a \in UserAnswers}

\* bodies of every kind: not JSON, and objects whose sentence_id is left
\* out, null, a number or a string, without and with an answer
AllBodies ==
    {MalformedBody}
    \cup {ObjectBody(f, FALSE, <<>>) : f \in {Omitted, Null, Quoted, Number(1)}}
    \cup {ObjectBody(f, TRUE, English1) : f \in {Omitted, Null, Quoted, Number(1)}}

\* json.Decoder.Decode returns an error for this body: it is not JSON, or
\* its sentence_id is not a number
CannotBeDecoded(body) == ~body.wellFormed \/ body.sentence_id.kind = "string"

\* this step answered 404 for the sentence and wrote nothing
SentenceNotFound ==
    /\ resp'.status = StatusNotFound
    /\ resp'.message = "Sentence not found"
    /\ StoreUnchanged

\* this step answered 204 and wrote nothing
NoContentAndNoChange ==
    /\ resp'.status = StatusNoContent
    /\ StoreUnchanged

\* on both endpoints, 400 is answered to the POSTs whose body cannot be
\* decoded and to no other request
BadRequestIffUndecodable ==
    \A m \in Methods, body \in AllBodies, storeOK \in BOOLEAN :
        /\ \E r \in {DecodeCheckAnswerRequest(m, body)} :
              ~ENABLED (/\ CheckAnswerLookup(r, storeOK, TRUE)
                        /\ ~(resp'.status = StatusBadRequest
                                <=> (m = "POST" /\ CannotBeDecoded(body))))
        /\ \E r \in {DecodeReportSentenceRequest(m, body)} :
              ~ENABLED (/\ ReportSentence(r, storeOK)
                        /\ ~(resp'.status = StatusBadRequest
                                <=> (m = "POST" /\ CannotBeDecoded(body))))

\* C26 as stated: a POST whose body is an object without sentence_id is
\* decoded with sentence_id 0; the check answers 404 and the report 204 and
\* neither writes; 400 is answered only when the body cannot be decoded.
C26_OmittedIdIs404And204 ==
    /\ 0 \notin SentenceIdsOf(sentences)
    /\ \A body \in BodiesWithoutSentenceId, storeOK \in BOOLEAN :
          /\ \E r \in {DecodeCheckAnswerRequest("POST", body)} :
                /\ r.bodyOK
                /\ r.sentence_id = 0
                /\ ~ENABLED (CheckAnswerLookup(r, storeOK, TRUE) /\ ~SentenceNotFound)
          /\ \E r \in {DecodeReportSentenceRequest("POST", body)} :
                /\ r.bodyOK
                /\ r.sentence_id = 0
                /\ ~ENABLED (ReportSentence(r, storeOK) /\ ~NoContentAndNoChange)
    /\ BadRequestIffUndecodable

\* C26 amended: a POST whose body is an object without sentence_id is
\* decoded with sentence_id 0, which no sentence has; the check answers 404
\* when its lookup query returns no error and the report answers 204 when
\* its update returns no error, each answers 500 when its statement returns
\* an error, and none of them writes; 400 is answered only when the body
\* cannot be decoded.
C26_OmittedIdIsProcessedAsZero ==
    [](/\ 0 \notin SentenceIdsOf(sentences)
       /\ AfterPreflight =>
             /\ \A body \in BodiesWithoutSentenceId :
                   /\ \E r \in {DecodeCheckAnswerRequest("POST", body)} :
                         /\ r.bodyOK
                         /\ r.sentence_id = 0
                         /\ \A rowsOK \in BOOLEAN :
                               ~ENABLED (/\ CheckAnswerLookup(r, TRUE, rowsOK)
                                         /\ ~SentenceNotFound)
                         /\ ~ENABLED (/\ CheckAnswerLookup(r, FALSE, TRUE)
                                      /\ ~InternalError)
                   /\ \E r \in {DecodeReportSentenceRequest("POST", body)} :
                         /\ r.bodyOK
                         /\ r.sentence_id = 0
                         /\ ~ENABLED (/\ ReportSentence(r, TRUE)
                                      /\ ~NoContentAndNoChange)
                         /\ ~ENABLED (/\ ReportSentence(r, FALSE)
                                      /\ ~InternalError)
             /\ BadRequestIffUndecodable)

\* a request without a known sentence_id was answered 404 by a server whose
\* table is full of answers, with no call in progress and no report made
C26_Witness ==
    /\ resp.status = StatusNotFound
    /\ resp.message = "Sentence not found"
    /\ inflight = EmptyBag
    /\ Len(answer_histories) = 3
    /\ \A n \in 1..Len(sentences) : ~sentences[n].is_reported

====
